---- MODULE Spec2Model ----
(***************************************************************************)
(* Model of the RLE codec of src/src/rle.py (encode_rle, decode_rle and    *)
(* the two methods A and B) as called by src/src/pycoder.py.               *)
(*                                                                         *)
(* A byte is an integer in 0..255, a bytes object or a file's content is a *)
(* sequence of bytes, and a file that does not exist is NoFile.  The three *)
(* files of a compress/decompress session are the source file (plain), the *)
(* container FILE.rle (rle) and the decompressed file (dec).               *)
(***************************************************************************)
EXTENDS Integers, Sequences, FiniteSets, TLC

VARIABLES
    plain,      \* content of the file given to encode_rle as in_file_path
    rle,        \* content of the container file, or NoFile
    dec,        \* content of the file decode_rle writes, or NoFile
    emitted,    \* the write_fn(curr_byte, count) calls of the last encode
    result,     \* how the last call ended and what it returned
    now,        \* the clock, in seconds since the epoch
    ts_default, \* the value of the default argument ts of encode_rle
    proc        \* the calls followed statement by statement: a frame each

vars == <<plain, rle, dec, emitted, result, now, ts_default, proc>>

-----------------------------------------------------------------------------
(* Bounds of the model *)

MaxRuns == 2          \* a long input is made of at most MaxRuns blocks
MaxShort == 4         \* longest input given byte by byte
MaxPayload == 4       \* longest payload of a container given byte by byte
StartTime == 254      \* the clock when the module rle is imported
MaxTicks == 2         \* how many seconds the clock advances
MaxConc == 2          \* longest input and payload of two calls at once

ByteVals == {2, 255}               \* byte values of the inputs
BlockLens == {1, 255, 256}         \* lengths of the blocks of equal bytes
RawVals == {0, 1, 2}               \* byte values of the payloads given byte by byte

-----------------------------------------------------------------------------
(* Program constants *)

TagA == 33            \* RLEMethod.A = b'\x21'
TagB == 138           \* RLEMethod.B = b'\x8a'
CountLimit == 256     \* _do_encode: if count == 256
TsLen == 4            \* to_bytes(4, 'big') and in_file.read(4)

\* a path with no file: no bytes object, and distinct from every content
NoFile == <<-1>>
Methods == {"A", "B"}

-----------------------------------------------------------------------------
(* bytes helpers *)

\* count * b for a bytes object b of length one: [b, b, ..., b]
Rep(b, n) == [i \in 1..n |-> b]

\* in_file.read(n) at position pos (1-based): at most n bytes, fewer at EOF
Read(f, pos, n) ==
    SubSeq(f, pos, IF pos + n - 1 <= Len(f) THEN pos + n - 1 ELSE Len(f))

\* int.to_bytes(4, 'big')
ToBytes4(n) ==
    << (n \div 16777216) % 256, (n \div 65536) % 256, (n \div 256) % 256, n % 256 >>

\* RLEMethod.value
MethodValue(m) == IF m = "A" THEN <<TagA>> ELSE <<TagB>>

\* _int_to_byte: bytes([byte]) is defined for 0..255 and raises ValueError otherwise
IntToByteOk(n) == n \in 0..255
IntToByte(n) == <<n>>

-----------------------------------------------------------------------------
(* Encoding *)

\* the state of _do_encode before its loop: curr_byte = in_.read(1), count = 1,
\* no write_fn call made yet
DoEncodeStart(first) == [curr_byte |-> first, count |-> 1, calls |-> <<>>]

\* DoEncodeStep with the overflow test one count late (count == 257)
DoEncodeStep_Late(st, next_byte) ==
    IF next_byte = st.curr_byte
    THEN LET count == st.count + 1 IN
         IF count = CountLimit + 1
         THEN [curr_byte |-> st.curr_byte, count |-> 1,
               calls |-> Append(st.calls, <<st.curr_byte, count - 1>>)]
         ELSE [curr_byte |-> st.curr_byte, count |-> count, calls |-> st.calls]
    ELSE [curr_byte |-> next_byte, count |-> 1,
          calls |-> Append(st.calls, <<st.curr_byte, st.count>>)]

\* one iteration of the for loop of _do_encode, on the byte next_byte
DoEncodeStep(st, next_byte) ==
    IF next_byte = st.curr_byte
    THEN LET count == st.count + 1 IN
         IF count = CountLimit
         THEN [curr_byte |-> st.curr_byte, count |-> 1,
               calls |-> Append(st.calls, <<st.curr_byte, count - 1>>)]
         ELSE [curr_byte |-> st.curr_byte, count |-> count, calls |-> st.calls]
    ELSE [curr_byte |-> next_byte, count |-> 1,
          calls |-> Append(st.calls, <<st.curr_byte, st.count>>)]

\* the for loop of _do_encode over the bytes in[lo..hi], in order, from the
\* state st.  The iterations of in[lo..mid] run before those of in[mid+1..hi];
\* halving the range only keeps the evaluation shallow.
RECURSIVE DoEncodeLoop(_, _, _, _)
DoEncodeLoop(in, lo, hi, st) ==
    IF lo > hi THEN st
    ELSE IF lo = hi THEN DoEncodeStep(st, in[lo])
    ELSE LET mid == (lo + hi) \div 2
             half == DoEncodeLoop(in, lo, mid, st)
         IN  \* count >= 1 always: the test makes half be computed first
             IF half.count >= 1
             THEN DoEncodeLoop(in, mid + 1, hi, half)
             ELSE half

\* DoEncode without the test of curr_byte after the loop: a last write_fn call
\* is made for the empty input too
DoEncode_NoGuard(in) ==
    IF in = <<>>
    THEN << <<0, 1>> >>
    ELSE LET r == DoEncodeLoop(in, 2, Len(in), DoEncodeStart(in[1]))
         IN  Append(r.calls, <<r.curr_byte, r.count>>)

\* _do_encode: the write_fn calls it makes for the input in
DoEncode(in) ==
    IF in = <<>>
    THEN <<>>
    ELSE LET r == DoEncodeLoop(in, 2, Len(in), DoEncodeStart(in[1]))
         IN  Append(r.calls, <<r.curr_byte, r.count>>)

\* WriteFnA writing the byte before its count
WriteFnA_ByteFirst(curr_byte, count) == <<curr_byte>> \o IntToByte(count)

\* write_fn of _encode_mA
WriteFnA(curr_byte, count) == IntToByte(count) \o <<curr_byte>>

\* WriteFnB taking a run of two for two single bytes (count > 2)
WriteFnB_FromThree(curr_byte, count) ==
    IF count > 2
    THEN <<curr_byte>> \o <<curr_byte>> \o IntToByte(count)
    ELSE Rep(curr_byte, count)

\* WriteFnB writing every run, a run of one included, doubled and counted
WriteFnB_AlwaysDoubled(curr_byte, count) ==
    <<curr_byte>> \o <<curr_byte>> \o IntToByte(count)

\* write_fn of _encode_mB
WriteFnB(curr_byte, count) ==
    IF count > 1
    THEN <<curr_byte>> \o <<curr_byte>> \o IntToByte(count)
    ELSE <<curr_byte>>

WriteFn(m, curr_byte, count) ==
    IF m = "A" THEN WriteFnA(curr_byte, count) ELSE WriteFnB(curr_byte, count)

\* what the write_fn calls write, in order; stops at a call whose count
\* _int_to_byte rejects
RECURSIVE WriteAll(_, _, _, _)
WriteAll(m, calls, k, out) ==
    IF k > Len(calls)
    THEN [status |-> "ok", out |-> out]
    ELSE IF ~IntToByteOk(calls[k][2])
         THEN [status |-> "ValueError",
               out |-> IF m = "B" THEN out \o <<calls[k][1], calls[k][1]>> ELSE out]
         ELSE WriteAll(m, calls, k + 1, out \o WriteFn(m, calls[k][1], calls[k][2]))

\* Header with the timestamp written before the method tag
Header_TsFirst(m, ts) == ts \o MethodValue(m)

\* the header encode_rle writes: method.value then ts
Header(m, ts) == MethodValue(m) \o ts

\* encode_fn(in_file, out_file) of encode_rle: _encode_mA or _encode_mB, which
\* hands its write_fn to _do_encode; calls are the write_fn calls made
EncodeFn(m, in) ==
    LET calls == DoEncode(in)
        w == WriteAll(m, calls, 1, <<>>)
    IN  [status |-> w.status, out |-> w.out, calls |-> calls]

\* encode_rle(method, in_file_path, out_file_path, overwrite, ts): src is the
\* source file, dest the destination before the call, ts the bytes written as
\* timestamp.  Gives the outcome and the destination after the call.
EncodeFile(method, src, dest, overwrite, ts) ==
    IF method \notin Methods
    THEN [status |-> "KeyError", dest |-> dest, ran |-> FALSE, calls |-> <<>>]
    ELSE IF src = NoFile
    THEN [status |-> "FileNotFoundError", dest |-> dest, ran |-> FALSE, calls |-> <<>>]
    ELSE IF ~overwrite /\ dest # NoFile
    THEN [status |-> "FileExistsError", dest |-> dest, ran |-> FALSE, calls |-> <<>>]
    ELSE LET e == EncodeFn(method, src)
         IN  [status |-> e.status, dest |-> Header(method, ts) \o e.out, ran |-> TRUE,
              calls |-> e.calls]

-----------------------------------------------------------------------------
(* Decoding *)

\* DecodeMA that takes a last single byte for the end of the input
RECURSIVE DecodeMA_DropOdd(_, _, _)
DecodeMA_DropOdd(f, pos, out) ==
    LET pair == Read(f, pos, 2) IN
    IF Len(pair) < 2
    THEN [status |-> "ok", out |-> out]
    ELSE DecodeMA_DropOdd(f, pos + 2, out \o Rep(pair[2], pair[1]))

\* _decode_mA: the loop over in_file.read(2) from file position pos on
RECURSIVE DecodeMA(_, _, _)
DecodeMA(f, pos, out) ==
    LET pair == Read(f, pos, 2) IN
    IF pair = <<>>
    THEN [status |-> "ok", out |-> out]
    ELSE IF Len(pair) < 2
    THEN [status |-> "ValueError", out |-> out]
    ELSE LET count == pair[1]
             next_byte_int == pair[2]
         IN  DecodeMA(f, pos + 2, out \o Rep(next_byte_int, count))

\* DecodeMB without the seek back: a differing b2 is lost
RECURSIVE DecodeMB_NoSeek(_, _, _)
DecodeMB_NoSeek(f, pos, out) ==
    LET b1 == Read(f, pos, 1)
        b2 == Read(f, pos + Len(b1), 1)
    IN  IF b1 = <<>>
        THEN [status |-> "ok", out |-> out]
        ELSE IF b1 = b2
        THEN LET b3 == Read(f, pos + 2, 1) IN
             IF b3 = <<>>
             THEN [status |-> "IndexError", out |-> out]
             ELSE DecodeMB_NoSeek(f, pos + 3, out \o Rep(b1[1], b3[1]))
        ELSE DecodeMB_NoSeek(f, pos + 2, out \o Rep(b1[1], 1))

\* DecodeMB that takes a doubled byte with no count byte for a run of two
RECURSIVE DecodeMB_NoCount(_, _, _)
DecodeMB_NoCount(f, pos, out) ==
    LET b1 == Read(f, pos, 1)
        b2 == Read(f, pos + Len(b1), 1)
    IN  IF b1 = <<>>
        THEN [status |-> "ok", out |-> out]
        ELSE IF b1 = b2
        THEN LET b3 == Read(f, pos + 2, 1) IN
             IF b3 = <<>>
             THEN [status |-> "ok", out |-> out \o Rep(b1[1], 2)]
             ELSE DecodeMB_NoCount(f, pos + 3, out \o Rep(b1[1], b3[1]))
        ELSE LET after == IF b2 # <<>> THEN (pos + 2) - 1 ELSE pos + 1
             IN  DecodeMB_NoCount(f, after, out \o Rep(b1[1], 1))

\* _decode_mB: the while loop from file position pos on
RECURSIVE DecodeMB(_, _, _)
DecodeMB(f, pos, out) ==
    LET b1 == Read(f, pos, 1)
        b2 == Read(f, pos + Len(b1), 1)
    IN  IF b1 = <<>>
        THEN [status |-> "ok", out |-> out]
        ELSE IF b1 = b2
        THEN LET b3 == Read(f, pos + 2, 1) IN
             IF b3 = <<>>
             THEN [status |-> "IndexError", out |-> out]
             ELSE DecodeMB(f, pos + 3, out \o Rep(b1[1], b3[1]))
        ELSE \* in_file.seek(-1, SEEK_CUR) when b2 was read
             LET after == IF b2 # <<>> THEN (pos + 2) - 1 ELSE pos + 1
             IN  DecodeMB(f, after, out \o Rep(b1[1], 1))

\* MethodOfTag with the two members taken for each other
MethodOfTag_Swapped(tag) ==
    IF tag = <<TagA>> THEN "B" ELSE IF tag = <<TagB>> THEN "A" ELSE "none"

\* RLEMethod(in_file.read(1)): the member with that value, "none" when the
\* Enum lookup raises ValueError
MethodOfTag(tag) ==
    IF tag = <<TagA>> THEN "A" ELSE IF tag = <<TagB>> THEN "B" ELSE "none"

DecodeFn(m, f, pos) ==
    IF m = "A" THEN DecodeMA(f, pos, <<>>) ELSE DecodeMB(f, pos, <<>>)

\* DecodeFile opening the destination before it looks at the method tag
DecodeFile_OpenFirst(src, dest, overwrite) ==
    IF src = NoFile
    THEN [status |-> "FileNotFoundError", method |-> "none", ts |-> <<>>, dest |-> dest]
    ELSE IF ~overwrite /\ dest # NoFile
    THEN [status |-> "FileExistsError", method |-> "none", ts |-> <<>>, dest |-> dest]
    ELSE LET tag == Read(src, 1, 1)
             method == MethodOfTag(tag)
             ts == Read(src, 1 + Len(tag), TsLen)
         IN  IF method = "none"
             THEN [status |-> "ValueError", method |-> "none", ts |-> <<>>, dest |-> <<>>]
             ELSE LET d == DecodeFn(method, src, 1 + Len(tag) + Len(ts))
                  IN  IF d.status = "ok"
                      THEN [status |-> "ok", method |-> method, ts |-> ts, dest |-> d.out]
                      ELSE [status |-> d.status, method |-> "none", ts |-> <<>>,
                            dest |-> d.out]

\* decode_rle(in_file_path, out_file_path, overwrite): src is the container,
\* dest the destination before the call.  Gives the outcome, the returned
\* [method, ts] and the destination after the call.
DecodeFile(src, dest, overwrite) ==
    IF src = NoFile
    THEN [status |-> "FileNotFoundError", method |-> "none", ts |-> <<>>, dest |-> dest]
    ELSE LET tag == Read(src, 1, 1)
             method == MethodOfTag(tag)
             ts == Read(src, 1 + Len(tag), TsLen)
         IN  IF method = "none"
             THEN [status |-> "ValueError", method |-> "none", ts |-> <<>>, dest |-> dest]
             ELSE IF ~overwrite /\ dest # NoFile
             THEN [status |-> "FileExistsError", method |-> "none", ts |-> <<>>,
                   dest |-> dest]
             ELSE LET d == DecodeFn(method, src, 1 + Len(tag) + Len(ts))
                  IN  IF d.status = "ok"
                      THEN [status |-> "ok", method |-> method, ts |-> ts, dest |-> d.out]
                      ELSE [status |-> d.status, method |-> "none", ts |-> <<>>,
                            dest |-> d.out]

-----------------------------------------------------------------------------
(* A call followed statement by statement *)

Procs == {1, 2}

\* the frame of a call: its arguments (op, method, src, overwrite, ts), the
\* destination file (dest, and dest0 as it was before the call), the
\* statement it is at (pc), the read position of in_file (pos), the locals of
\* _do_encode (curr_byte, a bytes object of length 0 or 1, and count), the
\* handles it holds (in_open, out_open), the number of files it has opened
\* (opens), how it ended (status) and what it returned (ret)
NewCall(op, method, src, dest, overwrite, ts) ==
    [op |-> op, method |-> method, src |-> src, dest |-> dest, dest0 |-> dest,
     overwrite |-> overwrite, ts |-> ts,
     pc |-> IF op = "encode" THEN "lookup" ELSE "open_in",
     pos |-> 1, curr_byte |-> <<>>, count |-> 0,
     in_open |-> FALSE, out_open |-> FALSE, opens |-> 0,
     status |-> "running", ret |-> <<>>]

\* no call
Idle == [NewCall("none", "none", NoFile, NoFile, TRUE, <<>>)
            EXCEPT !.pc = "end", !.status = "none"]

\* Raise leaving the with blocks without closing their files
Raise_NoClose(fr, exc) == [fr EXCEPT !.status = exc, !.pc = "end"]

\* an exception raised in the call: it leaves the with blocks the call is in,
\* the inner one first, each closing its file, and ends the call
Raise(fr, exc) ==
    [fr EXCEPT !.status = exc,
               !.pc = IF fr.out_open THEN "close_out"
                      ELSE IF fr.in_open THEN "close_in" ELSE "end"]

\* open(in_file_path, 'rb')
OpenIn(fr, then) ==
    IF fr.src = NoFile
    THEN Raise(fr, "FileNotFoundError")
    ELSE [fr EXCEPT !.in_open = TRUE, !.opens = @ + 1, !.pos = 1, !.pc = then]

\* OpenOut with the mode 'wb' whatever overwrite is
OpenOut_AlwaysWrite(fr, then) ==
    [fr EXCEPT !.dest = <<>>, !.out_open = TRUE, !.opens = @ + 1, !.pc = then]

\* open(out_file_path, 'wb' if overwrite else 'xb')
OpenOut(fr, then) ==
    IF ~fr.overwrite /\ fr.dest # NoFile
    THEN Raise(fr, "FileExistsError")
    ELSE [fr EXCEPT !.dest = <<>>, !.out_open = TRUE, !.opens = @ + 1, !.pc = then]

\* the end of the inner with block: out_file is closed
CloseOut(fr) == [fr EXCEPT !.out_open = FALSE, !.pc = "close_in"]

\* the end of the outer with block: in_file is closed; then the call returns
\* (decode_rle returns [method, ts]) or the exception goes on to the caller
CloseIn(fr) ==
    IF fr.status = "running"
    THEN [fr EXCEPT !.in_open = FALSE, !.pc = "end", !.status = "ok",
                    !.ret = IF fr.op = "decode" THEN <<fr.method, fr.ts>> ELSE <<>>]
    ELSE [fr EXCEPT !.in_open = FALSE, !.pc = "end"]

\* EncodeLookupStep with the lookup of encode_fn made after the files are opened
EncodeLookupStep_Late(fr) ==
    IF fr.method \notin Methods
    THEN Raise([fr EXCEPT !.in_open = TRUE, !.out_open = TRUE, !.opens = 2,
                          !.dest = <<>>], "KeyError")
    ELSE [fr EXCEPT !.pc = "open_in"]

\* encode_fn = {...}[method]
EncodeLookupStep(fr) ==
    IF fr.method \notin Methods
    THEN Raise(fr, "KeyError")
    ELSE [fr EXCEPT !.pc = "open_in"]

\* out_file.write(method.value); out_file.write(ts)
EncodeHeaderStep(fr) ==
    [fr EXCEPT !.dest = @ \o Header(fr.method, fr.ts), !.pc = "first"]

\* curr_byte = in_.read(1); count = 1
EncodeFirstStep(fr) ==
    LET b == Read(fr.src, fr.pos, 1)
    IN  [fr EXCEPT !.curr_byte = b, !.pos = @ + Len(b), !.count = 1, !.pc = "loop"]

\* the write_fn calls of one statement, written to out_file
WriteCalls(fr, calls) ==
    LET w == WriteAll(fr.method, calls, 1, <<>>)
    IN  IF w.status = "ok"
        THEN [fr EXCEPT !.dest = @ \o w.out]
        ELSE Raise([fr EXCEPT !.dest = @ \o w.out], w.status)

\* one iteration of the for loop of _do_encode: next_byte = in_.read(1), the
\* loop ending on b''
EncodeLoopStep(fr) ==
    LET next_byte == Read(fr.src, fr.pos, 1) IN
    IF next_byte = <<>>
    THEN [fr EXCEPT !.pc = "last"]
    ELSE LET st == DoEncodeStep([curr_byte |-> fr.curr_byte[1], count |-> fr.count,
                                 calls |-> <<>>], next_byte[1])
         IN  WriteCalls([fr EXCEPT !.pos = @ + 1, !.curr_byte = <<st.curr_byte>>,
                                   !.count = st.count], st.calls)

\* if curr_byte: write_fn(curr_byte, count)
EncodeLastStep(fr) ==
    IF fr.curr_byte # <<>>
    THEN LET w == WriteCalls(fr, << <<fr.curr_byte[1], fr.count>> >>)
         IN  IF w.status = "running" THEN [w EXCEPT !.pc = "close_out"] ELSE w
    ELSE [fr EXCEPT !.pc = "close_out"]

\* method = RLEMethod(in_file.read(1)) and the lookup of decode_fn
DecodeTagStep(fr) ==
    LET tag == Read(fr.src, fr.pos, 1)
        read == [fr EXCEPT !.pos = @ + Len(tag)]
    IN  IF MethodOfTag(tag) = "none"
        THEN Raise(read, "ValueError")
        ELSE [read EXCEPT !.method = MethodOfTag(tag), !.pc = "ts"]

\* DecodeTsStep refusing the timestamp 0 as no timestamp
DecodeTsStep_Checked(fr) ==
    LET ts == Read(fr.src, fr.pos, TsLen)
    IN  IF ts = ToBytes4(0)
        THEN Raise([fr EXCEPT !.pos = @ + Len(ts)], "ValueError")
        ELSE [fr EXCEPT !.ts = ts, !.pos = @ + Len(ts), !.pc = "open_out"]

\* ts = in_file.read(4)
DecodeTsStep(fr) ==
    LET ts == Read(fr.src, fr.pos, TsLen)
    IN  [fr EXCEPT !.ts = ts, !.pos = @ + Len(ts), !.pc = "open_out"]

\* one iteration of the loop of _decode_mA
DecodeMAStep(fr) ==
    LET pair == Read(fr.src, fr.pos, 2)
        read == [fr EXCEPT !.pos = @ + Len(pair)]
    IN  IF pair = <<>>
        THEN [fr EXCEPT !.pc = "close_out"]
        ELSE IF Len(pair) < 2
        THEN Raise(read, "ValueError")
        ELSE [read EXCEPT !.dest = @ \o Rep(pair[2], pair[1])]

\* DecodeMBStep without the seek back
DecodeMBStep_NoSeek(fr) ==
    LET b1 == Read(fr.src, fr.pos, 1)
        b2 == Read(fr.src, fr.pos + Len(b1), 1)
    IN  IF b1 = <<>>
        THEN [fr EXCEPT !.pc = "close_out"]
        ELSE IF b1 = b2
        THEN LET b3 == Read(fr.src, fr.pos + 2, 1) IN
             IF b3 = <<>>
             THEN Raise([fr EXCEPT !.pos = @ + 2], "IndexError")
             ELSE [fr EXCEPT !.pos = @ + 3, !.dest = @ \o Rep(b1[1], b3[1])]
        ELSE [fr EXCEPT !.pos = @ + 1 + Len(b2), !.dest = @ \o Rep(b1[1], 1)]

\* one iteration of the while loop of _decode_mB
DecodeMBStep(fr) ==
    LET b1 == Read(fr.src, fr.pos, 1)
        b2 == Read(fr.src, fr.pos + Len(b1), 1)
    IN  IF b1 = <<>>
        THEN [fr EXCEPT !.pc = "close_out"]
        ELSE IF b1 = b2
        THEN LET b3 == Read(fr.src, fr.pos + 2, 1) IN
             IF b3 = <<>>
             THEN Raise([fr EXCEPT !.pos = @ + 2], "IndexError")
             ELSE [fr EXCEPT !.pos = @ + 3, !.dest = @ \o Rep(b1[1], b3[1])]
        ELSE \* in_file.seek(-1, SEEK_CUR) when b2 was read
             LET after == IF b2 # <<>> THEN (fr.pos + 2) - 1 ELSE fr.pos + 1
             IN  [fr EXCEPT !.pos = after, !.dest = @ \o Rep(b1[1], 1)]

\* the next statement of the call of frame fr
CallStep(fr) ==
    CASE fr.pc = "lookup"    -> EncodeLookupStep(fr)
      [] fr.pc = "open_in"   -> OpenIn(fr, IF fr.op = "encode" THEN "open_out" ELSE "tag")
      [] fr.pc = "open_out"  -> OpenOut(fr, IF fr.op = "encode" THEN "header" ELSE "dloop")
      [] fr.pc = "header"    -> EncodeHeaderStep(fr)
      [] fr.pc = "first"     -> EncodeFirstStep(fr)
      [] fr.pc = "loop"      -> EncodeLoopStep(fr)
      [] fr.pc = "last"      -> EncodeLastStep(fr)
      [] fr.pc = "tag"       -> DecodeTagStep(fr)
      [] fr.pc = "ts"        -> DecodeTsStep(fr)
      [] fr.pc = "dloop"     -> IF fr.method = "A" THEN DecodeMAStep(fr)
                                ELSE DecodeMBStep(fr)
      [] fr.pc = "close_out" -> CloseOut(fr)
      [] fr.pc = "close_in"  -> CloseIn(fr)

-----------------------------------------------------------------------------
(* Inputs *)

Blocks == ByteVals \X BlockLens
BlockLists == UNION {[1..k -> Blocks] : k \in 0..MaxRuns}

\* the byte sequence made of the blocks bl[1], bl[2], ...
RECURSIVE Expand(_)
Expand(bl) ==
    IF bl = <<>> THEN <<>>
    ELSE Rep(bl[1][1], bl[1][2]) \o Expand(SubSeq(bl, 2, Len(bl)))

LongInputs == {Expand(bl) : bl \in BlockLists}
ShortInputs == UNION {[1..k -> ByteVals] : k \in 0..MaxShort}

Payloads == UNION {[1..k -> RawVals] : k \in 0..MaxPayload}
Stamp == ToBytes4(StartTime)
\* containers as a caller may hand them to decode_rle: any first byte, a
\* whole or a cut header, any payload
RawFiles ==
    {<<t>> \o Stamp \o p : t \in {TagA, TagB, 0}, p \in Payloads}
    \cup {<<>>, <<TagA>>, <<TagB, 0, 0>>, <<TagB, 0, 0, 0, 0>>}
Stale == <<7, 7>>     \* what an already existing destination holds

-----------------------------------------------------------------------------
(* The calls *)

\* no call made yet.  A result holds the call (op), how it ended (status: "ok"
\* or the exception raised), for encode_rle the method asked for, the
\* timestamp written and the clock at the call (at), for decode_rle the
\* returned [method, ts].
NoResult == [op |-> "none", status |-> "none", method |-> "none", ts |-> <<>>,
             at |-> 0]

\* the module rle is imported at StartTime: the default of ts is evaluated
Init ==
    /\ plain \in LongInputs \cup ShortInputs
    /\ rle = NoFile
    /\ dec = NoFile
    /\ emitted = <<>>
    /\ result = NoResult
    /\ now = StartTime
    /\ ts_default = ToBytes4(StartTime)
    /\ proc = [p \in Procs |-> Idle]

InitClock ==
    /\ plain \in ShortInputs
    /\ rle = NoFile
    /\ dec = NoFile
    /\ emitted = <<>>
    /\ result = NoResult
    /\ now = StartTime
    /\ ts_default = ToBytes4(StartTime)
    /\ proc = [p \in Procs |-> Idle]

InitRaw ==
    /\ plain = <<>>
    /\ rle \in RawFiles
    /\ dec \in {NoFile, Stale}
    /\ emitted = <<>>
    /\ result = NoResult
    /\ now = StartTime
    /\ ts_default = ToBytes4(StartTime)
    /\ proc = [p \in Procs |-> Idle]

\* a second passes
Tick ==
    /\ now < StartTime + MaxTicks
    /\ now' = now + 1
    /\ UNCHANGED <<plain, rle, dec, emitted, result, ts_default, proc>>

\* encode_rle(method, FILE, FILE.rle, overwrite) as pycoder.py calls it, ts
\* left to its default
EncodeRle(method, overwrite) ==
    LET e == EncodeFile(method, plain, rle, overwrite, ts_default)
    IN  /\ rle' = e.dest
        /\ emitted' = IF e.ran THEN e.calls ELSE emitted
        /\ result' = [op |-> "encode", status |-> e.status, method |-> method,
                      ts |-> IF e.ran THEN ts_default ELSE <<>>, at |-> now]
        /\ UNCHANGED <<plain, dec, now, ts_default, proc>>

\* decode_rle(FILE.rle, FILE, overwrite)
DecodeRle(overwrite) ==
    LET d == DecodeFile(rle, dec, overwrite)
    IN  /\ dec' = d.dest
        /\ result' = [op |-> "decode", status |-> d.status, method |-> d.method,
                      ts |-> d.ts, at |-> 0]
        /\ UNCHANGED <<plain, rle, emitted, now, ts_default, proc>>

EncodeCall == \E method \in Methods \cup {"X"}, overwrite \in BOOLEAN :
                 EncodeRle(method, overwrite)
DecodeCall == \E overwrite \in BOOLEAN : DecodeRle(overwrite)

\* the codec on long and short inputs
Next == EncodeCall \/ DecodeCall
Spec == Init /\ [][Next]_vars

\* calls at different clock seconds, on short inputs
NextClock == Tick \/ EncodeCall \/ DecodeCall
SpecClock == InitClock /\ [][NextClock]_vars

\* decode_rle on any container
NextRaw == DecodeCall
SpecRaw == InitRaw /\ [][NextRaw]_vars

\* Frame with the count of _do_encode kept in one place for all the calls
Frame_Shared(p) == [proc[p] EXCEPT !.count = proc[1].count]

\* the frame of the call p: its own locals, files and position
Frame(p) == proc[p]

\* the call p runs its next statement
Step(p) ==
    /\ proc[p].pc # "end"
    /\ proc' = [proc EXCEPT ![p] = CallStep(Frame(p))]
    /\ UNCHANGED <<plain, rle, dec, emitted, result, now, ts_default>>

\* the calls a caller may make: any method value, a source that is there or
\* not, a destination that is there or not, overwrite on or off
StepInputs == ShortInputs \cup {Rep(2, CountLimit), NoFile}
StepCalls ==
    {NewCall("encode", m, src, dest, ow, Stamp) :
        m \in Methods \cup {"X"}, src \in StepInputs,
        dest \in {NoFile, Stale}, ow \in BOOLEAN}
    \cup {NewCall("decode", "none", src, dest, ow, <<>>) :
        src \in RawFiles \cup {NoFile}, dest \in {NoFile, Stale}, ow \in BOOLEAN}

\* the calls of two callers at work at once, each on its own files
ConcInputs == UNION {[1..k -> ByteVals] : k \in 0..MaxConc}
ConcPayloads == UNION {[1..k -> {1, 2}] : k \in 0..MaxConc}
ConcCalls ==
    {NewCall("encode", m, src, NoFile, TRUE, Stamp) :
        m \in Methods, src \in ConcInputs}
    \cup {NewCall("decode", "none", <<t>> \o st \o p, NoFile, TRUE, <<>>) :
        t \in {TagA, TagB}, st \in {Stamp, ToBytes4(0)}, p \in ConcPayloads}

InitCalls(calls) ==
    /\ plain = <<>>
    /\ rle = NoFile
    /\ dec = NoFile
    /\ emitted = <<>>
    /\ result = NoResult
    /\ now = StartTime
    /\ ts_default = ToBytes4(StartTime)
    /\ proc \in calls

\* one call, statement by statement
InitStep == InitCalls({[p \in Procs |-> IF p = 1 THEN c ELSE Idle] : c \in StepCalls})
NextStep == \E p \in Procs : Step(p)
SpecStep == InitStep /\ [][NextStep]_vars

\* two calls on distinct files, their statements interleaved in any order
InitConc == InitCalls([Procs -> ConcCalls])
NextConc == \E p \in Procs : Step(p)
SpecConc == InitConc /\ [][NextConc]_vars

-----------------------------------------------------------------------------
(* What the specification says of an input, stated without the encoder *)

MaxCount == 255       \* the largest count one byte holds

\* the concatenation of a sequence of sequences
RECURSIVE Flat(_)
Flat(ss) == IF ss = <<>> THEN <<>> ELSE ss[1] \o Flat(SubSeq(ss, 2, Len(ss)))

\* the maximal runs of identical consecutive bytes of in, in input order, each
\* as <<byte, length>>
RECURSIVE MaximalRunsFrom(_, _, _)
MaximalRunsFrom(in, starts, i) ==
    IF i > Len(in) THEN <<>>
    ELSE LET later == {j \in starts : j > i}
             nxt == IF later = {} THEN Len(in) + 1
                    ELSE CHOOSE j \in later : \A k \in later : j <= k
         IN  << <<in[i], nxt - i>> >> \o MaximalRunsFrom(in, starts, nxt)

MaximalRuns(in) ==
    MaximalRunsFrom(in, {i \in 1..Len(in) : i = 1 \/ in[i] # in[i - 1]}, 1)

\* a run length split into chunks of MaxCount and a tail in 1..MaxCount
RECURSIVE Chunks(_)
Chunks(n) == IF n > MaxCount THEN <<MaxCount>> \o Chunks(n - MaxCount) ELSE <<n>>

\* the runs to emit for an input: every maximal run, split
ExpectedCalls(in) ==
    LET runs == MaximalRuns(in)
    IN  Flat([k \in 1..Len(runs) |->
                [c \in 1..Len(Chunks(runs[k][2])) |->
                    <<runs[k][1], Chunks(runs[k][2])[c]>>]])

\* Method A: a (count, byte) pair for every run to emit
ExpectedA(in) ==
    LET calls == ExpectedCalls(in)
    IN  Flat([k \in 1..Len(calls) |-> <<calls[k][2], calls[k][1]>>])

\* Method B for runs of at most MaxCount: the byte once for a run of 1, the
\* byte twice and the run length for a longer run
ExpectedB(in) ==
    LET runs == MaximalRuns(in)
    IN  Flat([k \in 1..Len(runs) |->
                IF runs[k][2] = 1 THEN <<runs[k][1]>>
                ELSE <<runs[k][1], runs[k][1], runs[k][2]>>])

\* Method B with every chunk of a run of 2 or more in the doubled form
ExpectedBDoubled(in) ==
    LET runs == MaximalRuns(in)
    IN  Flat([k \in 1..Len(runs) |->
                IF runs[k][2] = 1 THEN <<runs[k][1]>>
                ELSE Flat([c \in 1..Len(Chunks(runs[k][2])) |->
                             <<runs[k][1], runs[k][1], Chunks(runs[k][2])[c]>>])])

\* Method B with a chunk of 1 written as the byte once, whatever its run
ExpectedBLiteral(in) ==
    LET calls == ExpectedCalls(in)
    IN  Flat([k \in 1..Len(calls) |->
                IF calls[k][2] = 1 THEN <<calls[k][1]>>
                ELSE <<calls[k][1], calls[k][1], calls[k][2]>>])

\* the container holds a whole header with the tag t
IsContainer(f, t) == f # NoFile /\ Len(f) >= 1 + TsLen /\ f[1] = t
\* the bytes after the header
Payload(f) == SubSeq(f, 2 + TsLen, Len(f))

HasRun(in, P(_)) == \E k \in 1..Len(MaximalRuns(in)) : P(MaximalRuns(in)[k][2])
LongRun(n) == n > MaxCount
TailOne(n) == n > MaxCount /\ n % MaxCount = 1

-----------------------------------------------------------------------------
(* Claims *)

\* C1: round trip.  Decoding the container encode_rle made of an input, under
\* either method, succeeds and writes exactly that input, the empty input and
\* inputs with runs longer than 255 included.  (A decode refused because the
\* destination exists and overwrite is off is no decoding.)
C1_RoundTrip ==
    (result.op = "decode" /\ rle # NoFile /\ result.status # "FileExistsError")
        => (result.status = "ok" /\ dec = plain)

C1_Witness ==
    /\ result.op = "decode" /\ result.status = "ok"
    /\ IsContainer(rle, TagB)
    /\ dec = plain
    /\ HasRun(plain, TailOne)
    /\ Len(MaximalRuns(plain)) = 2

\* C2: Method A payload.  The payload is the concatenation over the maximal
\* runs, in input order, of (count, byte) pairs, a run longer than 255 as
\* (255, byte) pairs and one tail pair; the counts add up to the input length
\* and the payload has nothing but pairs.
C2_MethodAPayload ==
    IsContainer(rle, TagA) =>
        /\ Payload(rle) = ExpectedA(plain)
        /\ Len(Payload(rle)) % 2 = 0
        /\ \A k \in 1..Len(Payload(rle)) :
              k % 2 = 1 => Payload(rle)[k] \in 1..MaxCount

C2_Witness ==
    /\ IsContainer(rle, TagA)
    /\ Payload(rle) = ExpectedA(plain)
    /\ HasRun(plain, LongRun)
    /\ Len(MaximalRuns(plain)) = 2
    /\ Len(Payload(rle)) = 6

\* C3: Method B payload when every maximal run has length at most 255.  A run
\* of 1 is the byte once, a run of n >= 2 is the byte twice and a count byte n,
\* concatenated in input order.
C3_MethodBPayload ==
    (IsContainer(rle, TagB) /\ ~HasRun(plain, LongRun))
        => Payload(rle) = ExpectedB(plain)

C3_Witness ==
    /\ IsContainer(rle, TagB)
    /\ plain = Rep(2, MaxCount) \o <<255>>
    /\ Payload(rle) = <<2, 2, MaxCount, 255>>

\* C4: run-length overflow.  Every count emitted is in 1..255, the runs emitted
\* are the maximal runs each split into chunks of 255 and a tail in 1..255, 256
\* equal bytes are emitted as two runs (255 then 1), and decoding that output
\* gives back 256 bytes.
C4_RunSplit ==
    rle # NoFile =>
        /\ \A k \in 1..Len(emitted) : emitted[k][2] \in 1..MaxCount
        /\ emitted = ExpectedCalls(plain)
        /\ \A b \in ByteVals :
              plain = Rep(b, MaxCount + 1) =>
                 /\ emitted = << <<b, MaxCount>>, <<b, 1>> >>
                 /\ (result.op = "decode" /\ result.status = "ok")
                       => dec = Rep(b, MaxCount + 1)

C4_Witness ==
    /\ plain = Rep(2, MaxCount + 1)
    /\ emitted = << <<2, MaxCount>>, <<2, 1>> >>
    /\ result.op = "decode" /\ result.status = "ok"
    /\ Len(dec) = MaxCount + 1

\* C5 as stated: under Method B every chunk of a run of 2 or more, a final
\* chunk of exactly 1 included, is written as the byte twice and a count.
C5_DoubledTail ==
    IsContainer(rle, TagB) => Payload(rle) = ExpectedBDoubled(plain)

\* C5 amended: when a run of 2 or more is split and its final chunk is exactly
\* 1 (a run of 256 or 511), that chunk is written as the byte once, with no
\* doubling and no count, like a run of 1; the chunks of 2 or more are written
\* as the byte twice and a count.
C5_LiteralTail ==
    (IsContainer(rle, TagB) /\ HasRun(plain, TailOne))
        => Payload(rle) = ExpectedBLiteral(plain)

C5_Witness ==
    /\ IsContainer(rle, TagB)
    /\ plain = Rep(2, MaxCount + 1) \o <<255>>
    /\ Payload(rle) = <<2, 2, MaxCount, 2, 255>>

\* the first byte of the container is no method tag
BadTag(f) == f # NoFile /\ f # <<>> /\ f[1] \notin {TagA, TagB}

\* C6: malformed header.  decode_rle on a container whose first byte is not
\* one of the two method tags fails with the error of an unknown format (the
\* ValueError of the RLEMethod lookup) and leaves the destination as it was:
\* not created, not truncated, not written.
C6_MalformedHeader ==
    [][BadTag(rle) => (/\ result'.op = "decode"
                       /\ result'.status = "ValueError"
                       /\ dec' = dec)]_vars

C6_Witness ==
    /\ BadTag(rle)
    /\ result.op = "decode" /\ result.status = "ValueError"
    /\ dec = Stale

\* C7: truncated Method A payload.  When the bytes after the 5-byte header are
\* odd in number, decode_rle does not return: it fails, at the last byte, with
\* the error of the truncated input (the ValueError of unpacking one byte),
\* unless the destination could not be opened at all.
C7_TruncatedA ==
    (result.op = "decode" /\ IsContainer(rle, TagA) /\ Len(Payload(rle)) % 2 = 1)
        => /\ result.status # "ok"
           /\ result.status # "FileExistsError" => result.status = "ValueError"

C7_Witness ==
    /\ result.op = "decode" /\ result.status = "ValueError"
    /\ IsContainer(rle, TagA)
    /\ Len(Payload(rle)) = 3

\* the Method B reading of the payload p from position i comes to two equal
\* bytes with no third byte after them
RECURSIVE EndsInDoubled(_, _)
EndsInDoubled(p, i) ==
    IF i > Len(p) THEN FALSE
    ELSE IF i + 1 <= Len(p) /\ p[i] = p[i + 1]
         THEN IF i + 2 > Len(p) THEN TRUE ELSE EndsInDoubled(p, i + 3)
         ELSE EndsInDoubled(p, i + 1)

\* what the Method B reading of p from position i writes for the runs that
\* are whole
RECURSIVE WholeRuns(_, _)
WholeRuns(p, i) ==
    IF i > Len(p) THEN <<>>
    ELSE IF i + 1 <= Len(p) /\ p[i] = p[i + 1]
         THEN IF i + 2 > Len(p) THEN <<>>
              ELSE Rep(p[i], p[i + 2]) \o WholeRuns(p, i + 3)
         ELSE <<p[i]>> \o WholeRuns(p, i + 1)

\* C8: truncated Method B payload.  When the Method B decoder reads two equal
\* bytes and no third byte is left for the count, decode_rle does not return
\* and writes nothing for that run: it fails with the error of the truncated
\* input (the IndexError of b3[0]), unless the destination could not be opened.
C8_TruncatedB ==
    (result.op = "decode" /\ IsContainer(rle, TagB) /\ EndsInDoubled(Payload(rle), 1))
        => /\ result.status # "ok"
           /\ result.status # "FileExistsError"
                 => /\ result.status = "IndexError"
                    /\ dec = WholeRuns(Payload(rle), 1)

C8_Witness ==
    /\ result.op = "decode" /\ result.status = "IndexError"
    /\ IsContainer(rle, TagB)
    /\ Payload(rle) = <<1, 2, 2>>
    /\ dec = <<1>>

\* C9 as stated: the timestamp an encode_rle call writes into the header is the
\* clock value at the time of that call.
C9_FreshTimestamp ==
    (result.op = "encode" /\ result.status = "ok")
        => SubSeq(rle, 2, 1 + TsLen) = ToBytes4(result.at)

\* C10: container framing.  What a successful encode_rle call leaves is the
\* tag of the requested method at offset 0, the 4-byte timestamp at offsets
\* 1..4 and the payload of that method from offset 5 on; a successful
\* decode_rle returns the method of the byte at offset 0 and the bytes at
\* offsets 1..4 and writes the decoding of the bytes from offset 5 on alone.
C10_Framing ==
    /\ (result.op = "encode" /\ result.status = "ok")
          => /\ Len(result.ts) = 4
             /\ rle = << IF result.method = "A" THEN TagA ELSE TagB >>
                      \o result.ts
                      \o (IF result.method = "A" THEN ExpectedA(plain)
                          ELSE ExpectedBLiteral(plain))
    /\ (result.op = "decode" /\ result.status = "ok")
          => /\ result.method = (IF rle[1] = TagA THEN "A" ELSE "B")
             /\ result.ts = SubSeq(rle, 2, 5)
             /\ dec = DecodeFn(result.method, SubSeq(rle, 6, Len(rle)), 1).out

C10_Witness ==
    /\ result.op = "decode" /\ result.status = "ok"
    /\ rle = <<TagA>> \o ToBytes4(StartTime) \o <<2, 255>>
    /\ result.method = "A"
    /\ result.ts = ToBytes4(StartTime)
    /\ dec = <<255, 255>>

\* C11: method recovery.  decode_rle, which is given the container and no
\* method, applied to what encode_rle(m, ...) has just written succeeds and
\* returns exactly m.  (A decode refused because the destination exists and
\* overwrite is off returns nothing.)
C11_MethodRecovery ==
    [][(/\ result.op = "encode" /\ result.status = "ok"
        /\ result'.op = "decode" /\ result'.status # "FileExistsError")
          => (result'.status = "ok" /\ result'.method = result.method)]_vars

C11_Witness ==
    /\ result.op = "decode" /\ result.status = "ok"
    /\ result.method = "B"
    /\ IsContainer(rle, TagB)
    /\ Len(plain) > 1
    /\ dec = plain

\* C12: empty input.  encode_rle of the empty input, under either method,
\* writes the 5-byte header and nothing else (no run is emitted), and
\* decode_rle of that container succeeds and writes the empty sequence.
C12_EmptyInput ==
    (plain = <<>> /\ rle # NoFile)
        => /\ emitted = <<>>
           /\ rle \in {<<TagA>> \o ts_default, <<TagB>> \o ts_default}
           /\ (result.op = "decode" /\ result.status # "FileExistsError")
                 => (result.status = "ok" /\ dec = <<>>)

C12_Witness ==
    /\ plain = <<>>
    /\ rle = <<TagB>> \o ToBytes4(StartTime)
    /\ result.op = "decode" /\ result.status = "ok"
    /\ dec = <<>>

\* C14 as stated: when decode_rle fails on an incomplete trailing structure
\* (a dangling byte under Method A, a doubled byte with no count under Method
\* B), the destination holds none of the bytes decoded before the failure.
C14_NoPartialResult ==
    (/\ result.op = "decode"
     /\ \/ IsContainer(rle, TagA) /\ result.status = "ValueError"
        \/ IsContainer(rle, TagB) /\ result.status = "IndexError")
        => dec \in {NoFile, Stale, <<>>}

\* C18 as stated: decode_rle raises KeyError when the first byte of the input
\* is no method value, or is missing.
C18_DecodeKeyError ==
    (result.op = "decode" /\ (rle = <<>> \/ BadTag(rle)))
        => result.status = "KeyError"


-----------------------------------------------------------------------------
(* Claims on the calls followed statement by statement *)

\* the outcome of the call of frame c made alone, as one whole call
Alone(c) ==
    IF c.op = "encode"
    THEN LET e == EncodeFile(c.method, c.src, c.dest0, c.overwrite, c.ts)
         IN  [status |-> e.status, dest |-> e.dest, ret |-> <<>>]
    ELSE LET d == DecodeFile(c.src, c.dest0, c.overwrite)
         IN  [status |-> d.status, dest |-> d.dest,
              ret |-> IF d.status = "ok" THEN <<d.method, d.ts>> ELSE <<>>]

\* the outcome a frame has reached
Outcome(fr) == [status |-> fr.status, dest |-> fr.dest, ret |-> fr.ret]

\* C13: an encode call with a method outside A and B ends at its first
\* statement with KeyError: it has opened no file, neither the source (which
\* may be missing) nor the destination, and the destination is as it was
\* before the call, there or not.
C13_UnsupportedMethod ==
    LET fr == proc[1] IN
    (fr.op = "encode" /\ fr.method \notin Methods /\ fr.pc # "lookup")
        => /\ fr.pc = "end"
           /\ fr.status = "KeyError"
           /\ fr.opens = 0
           /\ ~fr.in_open /\ ~fr.out_open
           /\ fr.dest = fr.dest0

\* an encode with the method "X" on a missing source and a missing
\* destination has ended with KeyError, the destination still missing
C13_Witness ==
    /\ proc[1].op = "encode" /\ proc[1].method = "X"
    /\ proc[1].src = NoFile /\ proc[1].dest0 = NoFile
    /\ proc[1].pc = "end" /\ proc[1].status = "KeyError"
    /\ proc[1].dest = NoFile

\* C15: a call that has ended, however it ended, holds no open file: neither
\* in_file nor out_file is open at the end of an encode or a decode call.
C15_HandlesReleased ==
    \A p \in Procs :
        proc[p].pc = "end" => ~proc[p].in_open /\ ~proc[p].out_open

\* a decode that opened both files and failed in a truncated Method B payload
\* has ended with both closed
C15_Witness ==
    /\ proc[1].op = "decode" /\ proc[1].pc = "end"
    /\ proc[1].status = "IndexError" /\ proc[1].opens = 2
    /\ ~proc[1].in_open /\ ~proc[1].out_open

\* C16: two decode calls on containers that have the same tag and the same
\* payload, whatever their timestamp bytes, end the same way with the same
\* method and the same decoded bytes, and a call that succeeds returns the
\* four timestamp bytes of its own container as they are stored.
C16_TimestampNonInterference ==
    LET a == proc[1]
        b == proc[2]
    IN  (/\ a.op = "decode" /\ b.op = "decode"
         /\ a.pc = "end" /\ b.pc = "end"
         /\ a.src[1] = b.src[1]
         /\ Payload(a.src) = Payload(b.src))
            => /\ a.status = b.status
               /\ a.method = b.method
               /\ a.dest = b.dest
               /\ a.status = "ok" =>
                    /\ a.ret[1] = b.ret[1]
                    /\ a.ret[2] = SubSeq(a.src, 2, 1 + TsLen)
                    /\ b.ret[2] = SubSeq(b.src, 2, 1 + TsLen)

\* two Method B containers with the payload 1 2 and different timestamps
\* have both been decoded to 1 2, each call returning its own timestamp
C16_Witness ==
    /\ proc[1].op = "decode" /\ proc[2].op = "decode"
    /\ proc[1].pc = "end" /\ proc[2].pc = "end"
    /\ proc[1].src = <<TagB>> \o ToBytes4(0) \o <<1, 2>>
    /\ proc[2].src = <<TagB>> \o Stamp \o <<1, 2>>
    /\ proc[1].status = "ok" /\ proc[2].status = "ok"
    /\ proc[1].dest = <<1, 2>> /\ proc[2].dest = <<1, 2>>
    /\ proc[1].ret = <<"B", ToBytes4(0)>> /\ proc[2].ret = <<"B", Stamp>>

\* C17: of two calls whose statements are interleaved in any order, a
\* statement of one leaves the frame of the other as it is (its current byte,
\* count, read position and output), and a call that ends has the status,
\* the destination content and the return value of the same call made alone.
C17_CallIndependence ==
    [][\A p \in Procs :
          /\ proc'[p] # proc[p] => \A q \in Procs \ {p} : proc'[q] = proc[q]
          /\ proc'[p].pc = "end" => Outcome(proc'[p]) = Alone(proc'[p])]_vars

\* a Method B encode of 2 2 and a Method A encode of 255 2 have both ended,
\* with the other call still in its loop when the first one ended or not
C17_Witness ==
    /\ proc[1].op = "encode" /\ proc[1].method = "B" /\ proc[1].src = <<2, 2>>
    /\ proc[2].op = "encode" /\ proc[2].method = "A" /\ proc[2].src = <<255, 2>>
    /\ proc[1].pc = "end" /\ proc[2].pc = "end"
    /\ proc[1].dest = <<TagB>> \o Stamp \o <<2, 2, 2>>
    /\ proc[2].dest = <<TagA>> \o Stamp \o <<1, 255, 1, 2>>

\* C19: one iteration of the Method B decoding loop at position i of the
\* container: with no byte at i the loop ends and nothing is written; with
\* the byte at i + 1 equal to the byte at i and a byte at i + 2, the byte is
\* written as many times as the byte at i + 2 says and the position becomes
\* i + 3; with no byte at i + 1, or a different one, the byte at i is written
\* once and the position becomes i + 1. The first iteration is at the first
\* byte after the header of a container that has its five header bytes.
C19_LookaheadPushback ==
    [][LET fr == proc[1]
           to == proc'[1]
           f == fr.src
           i == fr.pos
       IN  /\ (IsContainer(f, TagB) /\ fr.pc = "open_out" /\ to.pc = "dloop")
                => to.pos = 2 + TsLen
           /\ (fr.op = "decode" /\ fr.method = "B" /\ fr.pc = "dloop" /\ to # fr)
                => IF i > Len(f)
                   THEN to = [fr EXCEPT !.pc = "close_out"]
                   ELSE IF i + 1 <= Len(f) /\ f[i] = f[i + 1]
                   THEN i + 2 <= Len(f)
                          => to = [fr EXCEPT !.pos = i + 3,
                                             !.dest = fr.dest \o Rep(f[i], f[i + 2])]
                   ELSE to = [fr EXCEPT !.pos = i + 1,
                                        !.dest = fr.dest \o <<f[i]>>]]_vars

\* the payload 1 2 2 2 has been scanned: 1 was written once, its lookahead 2
\* became the first byte of the run 2 2 with the count 2, and no byte remains
C19_Witness ==
    /\ proc[1].op = "decode" /\ proc[1].method = "B"
    /\ Payload(proc[1].src) = <<1, 2, 2, 2>>
    /\ proc[1].pc = "close_out" /\ proc[1].status = "running"
    /\ proc[1].pos = Len(proc[1].src) + 1
    /\ proc[1].dest = <<1, 2, 2>>

\* C20: a call with overwrite off on a destination that is there never opens
\* it, at no statement changes its content, and does not end well; a call
\* with overwrite on that opens a destination that is there leaves in it
\* what the same call leaves in a destination that was not there.
C20_OverwriteProtection ==
    LET fr == proc[1] IN
    (fr.op \in {"encode", "decode"} /\ fr.dest0 # NoFile)
        => /\ ~fr.overwrite =>
                /\ fr.dest = fr.dest0
                /\ ~fr.out_open
                /\ fr.pc = "end" => fr.status # "ok"
           /\ (fr.overwrite /\ fr.pc = "end" /\ fr.opens = 2) =>
                /\ fr.dest = Alone([fr EXCEPT !.dest0 = NoFile]).dest
                /\ fr.status = Alone([fr EXCEPT !.dest0 = NoFile]).status

\* a decode of a well-formed container with overwrite off has ended with
\* FileExistsError, the destination that was there as it was
C20_Witness ==
    /\ proc[1].op = "decode" /\ ~proc[1].overwrite
    /\ IsContainer(proc[1].src, TagA) /\ Payload(proc[1].src) = <<2, 1>>
    /\ proc[1].dest0 = Stale
    /\ proc[1].pc = "end" /\ proc[1].status = "FileExistsError"
    /\ proc[1].dest = Stale

====
